---- MODULE Spec2Model ----
(***************************************************************************)
(* Model of chillax.py: the weather -> condition -> query -> suggestion    *)
(* cascade (detect_language, categorize_weather, get_weather_forecast,     *)
(* suggest_videos, _get_suggestion_reason, get_activity_suggestion).       *)
(*                                                                         *)
(* Text that the code transforms (city names, weather labels) is a         *)
(* sequence of Unicode code points, so that lower() and strip() are        *)
(* computed rather than assumed.  Text that the code only passes along     *)
(* (queries, rationales, error messages) is a TLA+ string; the Japanese    *)
(* literals of the tables are written as tagged ASCII glosses.             *)
(* Timestamps are in hours (the code uses only the date and the hour).     *)
(***************************************************************************)
EXTENDS Integers, Sequences, FiniteSets, TLC

VARIABLES OPENWEATHER_API_KEY, YOUTUBE_API_KEY, pc, city, days_ahead,
          weather_info, queries, qidx, videos, forecastCalls, searchCalls,
          searchLog, result, weather_data, condition_out, forecast_list,
          sel_days_ahead, sel_now, target_forecast

vars == <<OPENWEATHER_API_KEY, YOUTUBE_API_KEY, pc, city, days_ahead,
          weather_info, queries, qidx, videos, forecastCalls, searchCalls,
          searchLog, result, weather_data, condition_out, forecast_list,
          sel_days_ahead, sel_now, target_forecast>>

(***************************************************************************)
(* Python helpers: dict.get, str.lower, str.strip, slicing                 *)
(***************************************************************************)
\* dict.get(k, default)
Get(d, k, default) == IF k \in DOMAIN d THEN d[k] ELSE default

\* str.lower() on one code point (ASCII letters; CJK and Hangul have no case)
LowerChar(c) == IF c \in 65..90 THEN c + 32 ELSE c

\* str.lower()
Lower(s) == [i \in 1..Len(s) |-> LowerChar(s[i])]

\* the characters str.strip() removes
IsSpace(c) == c \in {9, 10, 11, 12, 13, 32}

\* str.strip(): drop leading and trailing whitespace
RECURSIVE LStrip(_)
LStrip(s) == IF s # <<>> /\ IsSpace(Head(s)) THEN LStrip(Tail(s)) ELSE s

RECURSIVE RStrip(_)
RStrip(s) == IF s # <<>> /\ IsSpace(s[Len(s)]) THEN RStrip(SubSeq(s, 1, Len(s) - 1)) ELSE s

Strip(s) == RStrip(LStrip(s))

\* seq[:n]
Take(s, n) == SubSeq(s, 1, IF Len(s) < n THEN Len(s) ELSE n)

(***************************************************************************)
(* Text literals as code-point sequences                                   *)
(***************************************************************************)
s_tokyo == <<116, 111, 107, 121, 111>>  \* "tokyo"
s_osaka == <<111, 115, 97, 107, 97>>  \* "osaka"
s_kyoto == <<107, 121, 111, 116, 111>>  \* "kyoto"
s_yokohama == <<121, 111, 107, 111, 104, 97, 109, 97>>  \* "yokohama"
s_nagoya == <<110, 97, 103, 111, 121, 97>>  \* "nagoya"
s_tokyo_native == <<26481, 20140>>  \* "native script, U+6771 U+4EAC"
s_osaka_native == <<22823, 38442>>  \* "native script, U+5927 U+962A"
s_kyoto_native == <<20140, 37117>>  \* "native script, U+4EAC U+90FD"
s_london == <<108, 111, 110, 100, 111, 110>>  \* "london"
s_new_york == <<110, 101, 119, 32, 121, 111, 114, 107>>  \* "new york"
s_los_angeles == <<108, 111, 115, 32, 97, 110, 103, 101, 108, 101, 115>>  \* "los angeles"
s_chicago == <<99, 104, 105, 99, 97, 103, 111>>  \* "chicago"
s_toronto == <<116, 111, 114, 111, 110, 116, 111>>  \* "toronto"
s_seoul == <<115, 101, 111, 117, 108>>  \* "seoul"
s_busan == <<98, 117, 115, 97, 110>>  \* "busan"
s_seoul_native == <<49436, 50872>>  \* "native script, U+C11C U+C6B8"
s_beijing == <<98, 101, 105, 106, 105, 110, 103>>  \* "beijing"
s_shanghai == <<115, 104, 97, 110, 103, 104, 97, 105>>  \* "shanghai"
s_beijing_native == <<21271, 20140>>  \* "native script, U+5317 U+4EAC"
s_shanghai_native == <<19978, 28023>>  \* "native script, U+4E0A U+6D77"
w_thunderstorm == <<116, 104, 117, 110, 100, 101, 114, 115, 116, 111, 114, 109>>  \* "thunderstorm"
w_tornado == <<116, 111, 114, 110, 97, 100, 111>>  \* "tornado"
w_rain == <<114, 97, 105, 110>>  \* "rain"
w_snow == <<115, 110, 111, 119>>  \* "snow"
w_drizzle == <<100, 114, 105, 122, 122, 108, 101>>  \* "drizzle"

\* inputs: labels as the forecast provider spells them, city names as callers type them
in_Thunderstorm == <<84, 104, 117, 110, 100, 101, 114, 115, 116, 111, 114, 109>>  \* "Thunderstorm"
in_TORNADO == <<84, 79, 82, 78, 65, 68, 79>>  \* "TORNADO"
in_Rain == <<82, 97, 105, 110>>  \* "Rain"
in_snow == <<115, 110, 111, 119>>  \* "snow"
in_Drizzle == <<68, 114, 105, 122, 122, 108, 101>>  \* "Drizzle"
in_Clear == <<67, 108, 101, 97, 114>>  \* "Clear"
in_Clouds == <<67, 108, 111, 117, 100, 115>>  \* "Clouds"
in_Tokyo == <<84, 111, 107, 121, 111>>  \* "Tokyo"
in_SEOUL_padded == <<32, 32, 83, 69, 79, 85, 76, 32>>  \* "  SEOUL "
in_UnknownVillage == <<85, 110, 107, 110, 111, 119, 110, 86, 105, 108, 108, 97, 103, 101>>  \* "UnknownVillage"

(***************************************************************************)
(* Enumerations and static tables                                          *)
(***************************************************************************)
WeatherCondition == {"perfect", "hot", "cold", "rainy", "stormy"}

Language == {"ja", "en", "ko", "zh"}

\* the empty dict {}
EmptyDict == [k \in {} |-> 0]

CITY_LANGUAGE_MAP ==
    { <<s_tokyo, "ja">>, <<s_osaka, "ja">>, <<s_kyoto, "ja">>, <<s_yokohama, "ja">>,
      <<s_nagoya, "ja">>, <<s_tokyo_native, "ja">>, <<s_osaka_native, "ja">>,
      <<s_kyoto_native, "ja">>,
      <<s_london, "en">>, <<s_new_york, "en">>, <<s_los_angeles, "en">>,
      <<s_chicago, "en">>, <<s_toronto, "en">>,
      <<s_seoul, "ko">>, <<s_busan, "ko">>, <<s_seoul_native, "ko">>,
      <<s_beijing, "zh">>, <<s_shanghai, "zh">>, <<s_beijing_native, "zh">>,
      <<s_shanghai_native, "zh">> }

\* "ja:" entries stand for the Japanese literals of the table, in order
SEARCH_QUERIES ==
    [ perfect |-> [ ja |-> <<"ja:outdoor vlog", "ja:park walk", "ja:picnic", "ja:sightseeing spots", "ja:cycling">>,
                    en |-> <<"outdoor activities", "park walking", "picnic ideas", "travel destinations", "cycling vlog">> ],
      hot     |-> [ ja |-> <<"ja:cool room", "ja:summer indoors", "ja:ice recipe", "ja:air conditioner comfort", "ja:summer resort">>,
                    en |-> <<"indoor summer activities", "cool room ideas", "ice cream recipes", "beat the heat", "air conditioning tips">> ],
      cold    |-> [ ja |-> <<"ja:winter indoors", "ja:hot drink recipe", "ja:kotatsu", "ja:heating comfort", "ja:winter reading">>,
                    en |-> <<"cozy winter activities", "hot beverage recipes", "warm indoor ideas", "winter reading", "fireplace ambience">> ],
      rainy   |-> [ ja |-> <<"ja:rainy day", "ja:jazz BGM", "ja:reading recommendations", "ja:indoor hobbies", "ja:cooking recipe">>,
                    en |-> <<"rainy day activities", "jazz music", "book recommendations", "indoor hobbies", "cooking recipes">> ],
      stormy  |-> [ ja |-> <<"ja:typhoon preparation", "ja:disaster prevention", "ja:staying safe", "ja:relaxing music", "ja:meditation">>,
                    en |-> <<"storm preparation", "safety tips", "relaxation music", "meditation", "calming videos">> ] ]

reasons ==
    [ perfect |-> [ ja |-> "ja:Wonderful weather! The best day to go out.",
                    en |-> "Perfect weather! It's a great day to enjoy outdoor activities." ],
      hot     |-> [ ja |-> "ja:It will be very hot. Stay comfortable in a cool room.",
                    en |-> "It's going to be very hot. Stay cool and comfortable indoors." ],
      cold    |-> [ ja |-> "ja:It will be cold. Stay cosy in a warm room.",
                    en |-> "It's going to be cold. Stay warm and cozy indoors." ],
      rainy   |-> [ ja |-> "ja:Take it easy indoors on a rainy day. Best for reading and music.",
                    en |-> "A rainy day is perfect for indoor activities. Enjoy some music or a good book." ],
      stormy  |-> [ ja |-> "ja:Rough weather expected. Safety first, stay relaxed.",
                    en |-> "Stormy weather expected. Stay safe and relaxed indoors." ] ]

(***************************************************************************)
(* detect_language                                                         *)
(***************************************************************************)
detect_language(c) ==
    LET city_lower == Strip(Lower(c))
    IN  IF \E e \in CITY_LANGUAGE_MAP : e[1] = city_lower
        THEN (CHOOSE e \in CITY_LANGUAGE_MAP : e[1] = city_lower)[2]
        ELSE "en"

(***************************************************************************)
(* categorize_weather                                                      *)
(***************************************************************************)
DefaultTemp == 20
HotThreshold == 30
ColdThreshold == 10

\* lines 106-109: the label and the three temperatures as the rules read them
main_weather(wd) == Lower(Get(Get(wd, "weather", <<EmptyDict>>)[1], "main", <<>>))
temp(wd) == Get(Get(wd, "main", EmptyDict), "temp", DefaultTemp)

\* a variant that reads a missing temp_max as the fixed default
temp_max_fixed_default(wd) == Get(Get(wd, "main", EmptyDict), "temp_max", DefaultTemp)
temp_max(wd) == Get(Get(wd, "main", EmptyDict), "temp_max", temp(wd))
temp_min(wd) == Get(Get(wd, "main", EmptyDict), "temp_min", temp(wd))

\* a variant that tests the cold rule before the hot rule
categorize_weather_cold_first(wd) ==
    IF main_weather(wd) \in {w_thunderstorm, w_tornado} THEN "stormy"
    ELSE IF main_weather(wd) \in {w_rain, w_snow, w_drizzle} THEN "rainy"
    ELSE IF temp_min(wd) <= ColdThreshold THEN "cold"
    ELSE IF temp_max(wd) >= HotThreshold THEN "hot"
    ELSE "perfect"
categorize_weather(wd) ==
    IF main_weather(wd) \in {w_thunderstorm, w_tornado} THEN "stormy"
    ELSE IF main_weather(wd) \in {w_rain, w_snow, w_drizzle} THEN "rainy"
    ELSE IF temp_max(wd) >= HotThreshold THEN "hot"
    ELSE IF temp_min(wd) <= ColdThreshold THEN "cold"
    ELSE "perfect"

(***************************************************************************)
(* Values shared by the specifications                                     *)
(***************************************************************************)
\* Python's None
None == [none |-> TRUE]

\* a condition not yet computed
NoCondition == "none"

\* temperatures: every fifth degree within TempSpread steps of the default, and
\* the two values next to the thresholds (whole degrees; the rules only compare
\* temperatures with the two thresholds)
TempSpread == 2
Temps == { DefaultTemp + 5 * k : k \in (-TempSpread)..TempSpread }
         \cup {ColdThreshold + 1, HotThreshold - 1}

Labels == {in_Thunderstorm, in_TORNADO, in_Rain, in_snow, in_Drizzle, in_Clear, in_Clouds}

\* the "main" dict of an observation with any subset of its temperature fields
MainDicts == UNION { [K -> Temps] : K \in SUBSET {"temp", "temp_max", "temp_min"} }

\* the first element of the "weather" list, with or without its label
LabelDicts == {EmptyDict} \cup { [main |-> l] : l \in Labels }

\* observations handed to categorize_weather
ClassifyInputs ==
    { [weather |-> <<w>>, main |-> m] : w \in LabelDicts, m \in MainDicts }
    \cup { [main |-> m] : m \in MainDicts }
    \cup { [weather |-> <<w>>] : w \in LabelDicts }

\* the request state of the cascade when no request is in progress
PipelineAtRest ==
    /\ pc = "idle"
    /\ city = <<>>
    /\ days_ahead = 0
    /\ weather_info = None
    /\ queries = <<>>
    /\ qidx = 0
    /\ videos = <<>>
    /\ forecastCalls = 0
    /\ searchCalls = 0
    /\ searchLog = <<>>
    /\ result = None

pipelineVars == <<pc, city, days_ahead, weather_info, queries, qidx, videos,
                  forecastCalls, searchCalls, searchLog, result>>
keyVars == <<OPENWEATHER_API_KEY, YOUTUBE_API_KEY>>
classifyVars == <<weather_data, condition_out>>
selectVars == <<forecast_list, sel_days_ahead, sel_now, target_forecast>>

ClassifyAtRest == weather_data = None /\ condition_out = NoCondition
SelectAtRest ==
    /\ forecast_list = <<>>
    /\ sel_days_ahead = 0
    /\ sel_now = 0
    /\ target_forecast = None

(***************************************************************************)
(* SpecClassify: categorize_weather applied to every observation           *)
(***************************************************************************)
InitClassify ==
    /\ OPENWEATHER_API_KEY = TRUE /\ YOUTUBE_API_KEY = TRUE
    /\ PipelineAtRest
    /\ SelectAtRest
    /\ weather_data \in ClassifyInputs
    /\ condition_out = NoCondition

Categorize ==
    /\ condition_out = NoCondition
    /\ condition_out' = categorize_weather(weather_data)
    /\ UNCHANGED <<weather_data, keyVars, pipelineVars, selectVars>>

NextClassify == Categorize

SpecClassify == InitClassify /\ [][NextClassify]_vars

\* ---- properties of categorize_weather (checked under SpecClassify) ----
Categorized == condition_out # NoCondition
HasLabel(wd) == "weather" \in DOMAIN wd /\ "main" \in DOMAIN wd.weather[1]
HasField(wd, f) == "main" \in DOMAIN wd /\ f \in DOMAIN wd.main

\* the provider's spellings of the storm-class and precipitation-class labels
StormClass == {in_Thunderstorm, in_TORNADO}
PrecipClass == {in_Rain, in_snow, in_Drizzle}
NeutralLabel(wd) == ~HasLabel(wd) \/ wd.weather[1].main \notin (StormClass \cup PrecipClass)

\* the five rules in their order, for a label l, a maximum tmax and a minimum tmin
RuleOrder(l, tmax, tmin) ==
    IF l \in StormClass THEN "stormy"
    ELSE IF l \in PrecipClass THEN "rainy"
    ELSE IF tmax >= 30 THEN "hot"
    ELSE IF tmin <= 10 THEN "cold"
    ELSE "perfect"

\* C1: when label, temp_max and temp_min are present, the condition is that of
\* the first matching rule in the order stormy, rainy, hot, cold, perfect, the
\* label being compared without regard to case.
C1_FirstMatchWins ==
    (Categorized /\ HasLabel(weather_data) /\ HasField(weather_data, "temp_max")
                 /\ HasField(weather_data, "temp_min"))
    => condition_out = RuleOrder(weather_data.weather[1].main,
                                 weather_data.main.temp_max, weather_data.main.temp_min)

\* C1 witness: a neutral label with temp_max >= 30 and temp_min <= 10 came out hot
C1_Witness ==
    /\ Categorized /\ HasLabel(weather_data)
    /\ weather_data.weather[1].main = in_Clear
    /\ HasField(weather_data, "temp_max") /\ weather_data.main.temp_max >= 30
    /\ HasField(weather_data, "temp_min") /\ weather_data.main.temp_min <= 10
    /\ condition_out = "hot"

\* C9 as stated: with a neutral label, every missing temp_max or temp_min is
\* evaluated as 20 in the hot and cold rules.
C9_MissingIsTwenty ==
    (Categorized /\ NeutralLabel(weather_data)
       /\ (~HasField(weather_data, "temp_max") \/ ~HasField(weather_data, "temp_min")))
    => condition_out =
         RuleOrder(<<>>,
                   IF HasField(weather_data, "temp_max") THEN weather_data.main.temp_max ELSE 20,
                   IF HasField(weather_data, "temp_min") THEN weather_data.main.temp_min ELSE 20)

\* the value a missing temp_max or temp_min takes: the observation's temp when
\* it has one, and 20 when temp is missing too
Fallback(wd) == IF HasField(wd, "temp") THEN wd.main.temp ELSE 20

\* C9 amended: with a neutral label, a missing temp_max or temp_min is evaluated
\* as the observation's temp field, and as 20 only when temp is missing as well;
\* an observation with all three temperatures missing is perfect.
C9_MissingFallsBackToTemp ==
    (Categorized /\ NeutralLabel(weather_data)
       /\ (~HasField(weather_data, "temp_max") \/ ~HasField(weather_data, "temp_min")))
    => condition_out =
         RuleOrder(<<>>,
                   IF HasField(weather_data, "temp_max") THEN weather_data.main.temp_max
                                                         ELSE Fallback(weather_data),
                   IF HasField(weather_data, "temp_min") THEN weather_data.main.temp_min
                                                         ELSE Fallback(weather_data))

\* C9 witness: temp_max and temp_min missing, temp present and hot
C9_Witness ==
    /\ Categorized /\ NeutralLabel(weather_data)
    /\ ~HasField(weather_data, "temp_max") /\ ~HasField(weather_data, "temp_min")
    /\ HasField(weather_data, "temp") /\ weather_data.main.temp >= 30
    /\ condition_out = "hot"

(***************************************************************************)
(* get_weather_forecast: the part after the fetch (selection and result)   *)
(***************************************************************************)
\* strftime("%Y-%m-%d") of a timestamp in hours: its day
DateStr(t) == t \div 24

\* datetime.hour of a timestamp in hours
HourOf(t) == t % 24

\* line 166-167: the date of now + timedelta(days=days_ahead)
target_date_str(now, d) == DateStr(now + 24 * d)

\* a variant of the scan that takes the first observation of the date whatever its hour
RECURSIVE ScanForecasts_no_window(_, _, _)
ScanForecasts_no_window(list, date, target) ==
    IF list = <<>> THEN target
    ELSE LET forecast == Head(list)
         IN  IF DateStr(forecast.dt) = date
             THEN forecast
             ELSE ScanForecasts_no_window(Tail(list), date, target)
\* lines 173-181: the loop over forecast_list; target is target_forecast so far
RECURSIVE ScanForecasts(_, _, _)
ScanForecasts(list, date, target) ==
    IF list = <<>> THEN target
    ELSE LET forecast == Head(list)
             forecast_time == forecast.dt
         IN  IF DateStr(forecast_time) = date
             THEN IF HourOf(forecast_time) >= 11 /\ HourOf(forecast_time) <= 13
                  THEN forecast
                  ELSE IF target = None
                       THEN ScanForecasts(Tail(list), date, forecast)
                       ELSE ScanForecasts(Tail(list), date, target)
             ELSE ScanForecasts(Tail(list), date, target)

\* line 184: f"No forecast available for {days_ahead} days ahead"
NoForecastMessage(d) == "No forecast available for " \o ToString(d) \o " days ahead"

\* lines 165-171: the observation chosen from the provider's data
SelectForecast(data, now, d) ==
    ScanForecasts(Get(data, "list", <<>>), target_date_str(now, d), None)

\* lines 183-205: the result built from the chosen observation
ForecastResult(c, d, now, target) ==
    IF target = None
    THEN [error |-> NoForecastMessage(d)]
    ELSE [ city |-> c,
           date |-> target_date_str(now, d),
           weather |-> [ main |-> target.weather[1].main,
                         description |-> target.weather[1].description,
                         temperature |-> target.main.temp,
                         temp_min |-> target.main.temp_min,
                         temp_max |-> target.main.temp_max,
                         humidity |-> target.main.humidity ],
           condition |-> categorize_weather(target),
           language |-> detect_language(c) ]

(***************************************************************************)
(* SpecSelect: the selection applied to every short observation sequence   *)
(***************************************************************************)
MaxObs == 3
MaxDay == 1

\* a complete observation at time t with label l, description desc and
\* temperatures temp_min = lo, temp = mid, temp_max = hi
Observation(t, l, desc, lo, mid, hi) ==
    [ dt |-> t,
      weather |-> <<[main |-> l, description |-> desc]>>,
      main |-> [temp |-> mid, temp_min |-> lo, temp_max |-> hi, humidity |-> 50] ]

\* observations on days 0..MaxDay at the hours around the noon window
SelectObs == { Observation(24 * day + h, in_Clear, "clear sky", 18, 20, 22) :
                 day \in 0..MaxDay, h \in {10, 11, 13, 14} }

SeqsUpTo(S, n) == UNION { [1..k -> S] : k \in 0..n }

InitSelect ==
    /\ OPENWEATHER_API_KEY = TRUE /\ YOUTUBE_API_KEY = TRUE
    /\ PipelineAtRest
    /\ ClassifyAtRest
    /\ forecast_list \in SeqsUpTo(SelectObs, MaxObs)
    /\ sel_days_ahead \in 0..5
    /\ sel_now \in {9, 23}
    /\ target_forecast = None

\* get_weather_forecast from line 165 on, for the data [list |-> forecast_list]
Select ==
    /\ weather_info = None
    /\ target_forecast' = SelectForecast([list |-> forecast_list], sel_now, sel_days_ahead)
    /\ weather_info' = ForecastResult(in_Tokyo, sel_days_ahead, sel_now, target_forecast')
    /\ UNCHANGED <<forecast_list, sel_days_ahead, sel_now, keyVars, classifyVars,
                   pc, city, days_ahead, queries, qidx, videos, forecastCalls,
                   searchCalls, searchLog, result>>

NextSelect == Select

SpecSelect == InitSelect /\ [][NextSelect]_vars

\* ---- properties of the selection (checked under SpecSelect) ----
Selected == weather_info # None
TargetDay == (sel_now + 24 * sel_days_ahead) \div 24
OnTargetDate == { i \in 1..Len(forecast_list) : forecast_list[i].dt \div 24 = TargetDay }
InWindow == { i \in OnTargetDate : forecast_list[i].dt % 24 \in 11..13 }
First(S) == CHOOSE i \in S : \A j \in S : i <= j

\* C7: the chosen observation is the first one on the target date within hours
\* 11..13 if there is one, otherwise the first one on the target date, and with
\* none on the target date the result is the no-forecast error.
C7_Selection ==
    Selected =>
      IF InWindow # {}
      THEN target_forecast = forecast_list[First(InWindow)] /\ "error" \notin DOMAIN weather_info
      ELSE IF OnTargetDate # {}
           THEN target_forecast = forecast_list[First(OnTargetDate)]
                /\ "error" \notin DOMAIN weather_info
           ELSE target_forecast = None
                /\ weather_info = [error |-> NoForecastMessage(sel_days_ahead)]

\* C7 witness: an in-window observation was chosen although an out-of-window
\* observation of the target date precedes it
C7_Witness ==
    /\ Selected
    /\ InWindow # {}
    /\ First(OnTargetDate) < First(InWindow)
    /\ target_forecast = forecast_list[First(InWindow)]

(***************************************************************************)
(* Query Catalog lookups                                                   *)
(***************************************************************************)
\* a variant of the lookup that falls back to the ja entry
lookup_queries_ja_fallback(condition, language) ==
    Get(Get(SEARCH_QUERIES, condition, EmptyDict), language, SEARCH_QUERIES[condition]["ja"])
\* line 228
lookup_queries(condition, language) ==
    Get(Get(SEARCH_QUERIES, condition, EmptyDict), language, SEARCH_QUERIES[condition]["en"])

\* line 302
_get_suggestion_reason(condition, language) ==
    Get(Get(reasons, condition, EmptyDict), language, reasons[condition]["en"])

(***************************************************************************)
(* suggest_videos                                                          *)
(***************************************************************************)
MaxQueries == 2
MaxVideos == 5

\* a Python list returned where a dict is returned otherwise
PyList(elems) == [list |-> elems]

\* a variant of the slice that keeps one query more
query_slice_one_more(qs) == Take(qs, MaxQueries + 1)
\* line 233: queries[:2]
query_slice(qs) == Take(qs, MaxQueries)

\* lines 249-256: the video built from one item (the URL stands for the item's
\* videoId; title, channel, description and thumbnail are carried along unused)
Video(item, query) == [url |-> item.videoId, search_query |-> query]

\* a variant of the inner loop without its break
RECURSIVE AppendItems_no_break(_, _, _)
AppendItems_no_break(vs, items, query) ==
    IF items = <<>> THEN vs
    ELSE AppendItems_no_break(Append(vs, Video(Head(items), query)), Tail(items), query)
\* lines 248-260: the inner loop, which stops once 5 videos are collected
RECURSIVE AppendItems(_, _, _)
AppendItems(vs, items, query) ==
    IF items = <<>> THEN vs
    ELSE LET appended == Append(vs, Video(Head(items), query))
         IN  IF Len(appended) >= MaxVideos
             THEN appended
             ELSE AppendItems(appended, Tail(items), query)

\* line 269: the one-line summary, as the tuple of the values it interpolates
weather_summary(wi) == <<wi.city, wi.date, wi.weather.description, wi.weather.temperature>>

\* lines 268-272: the SuggestionResult
SuggestionResult(wi, vs) ==
    [ weather_summary |-> weather_summary(wi),
      suggestion_reason |-> _get_suggestion_reason(wi.condition, wi.language),
      videos |-> Take(vs, MaxVideos) ]

\* lines 327-330: the composite returned by get_activity_suggestion
Composite(wi, suggestions) == [weather |-> wi, suggestions |-> suggestions]

\* suggest_videos returns and get_activity_suggestion returns the composite
Return(suggestions, vs) ==
    /\ result' = Composite(weather_info', suggestions)
    /\ videos' = vs
    /\ pc' = "done"

\* lines 266-274 and 327-330: the loop is over, the result is assembled
Finish(vs) ==
    /\ Return(SuggestionResult(weather_info', vs), vs)
    /\ UNCHANGED <<qidx, searchCalls>>

\* lines 233-244: the next query of the slice, if any, is sent to the provider
NextQuery(vs) ==
    IF qidx < Len(query_slice(queries))
    THEN /\ qidx' = qidx + 1
         /\ searchCalls' = searchCalls + 1
         /\ videos' = vs
         /\ UNCHANGED <<pc, result>>
    ELSE Finish(vs)

\* lines 217-244: suggest_videos up to its first search call
StartSuggest(wi) ==
    IF ~YOUTUBE_API_KEY
    THEN /\ Return(PyList(<<[error |-> "YouTube API key not configured"]>>), <<>>)
         /\ UNCHANGED <<queries, qidx, searchCalls>>
    ELSE IF "error" \in DOMAIN wi
    THEN /\ Return(PyList(<<[error |-> "Invalid weather info: " \o wi.error]>>), <<>>)
         /\ UNCHANGED <<queries, qidx, searchCalls>>
    ELSE /\ queries' = lookup_queries(Get(wi, "condition", "perfect"), Get(wi, "language", "en"))
         /\ IF query_slice(queries') = <<>>
            THEN /\ Return(SuggestionResult(wi, <<>>), <<>>)
                 /\ UNCHANGED <<qidx, searchCalls>>
            ELSE /\ qidx' = 1
                 /\ searchCalls' = 1
                 /\ pc' = "await_search"
                 /\ UNCHANGED <<videos, result>>

(***************************************************************************)
(* get_activity_suggestion                                                 *)
(***************************************************************************)
\* a variant of the orchestrator that goes on to the suggestions in any case
AfterForecast_no_check(wi) ==
    /\ weather_info' = wi
    /\ StartSuggest(wi)
\* lines 318-324: weather_info is known; an error is returned as it is
AfterForecast(wi) ==
    /\ weather_info' = wi
    /\ IF "error" \in DOMAIN wi
       THEN /\ result' = wi
            /\ pc' = "done"
            /\ UNCHANGED <<queries, qidx, videos, searchCalls>>
       ELSE StartSuggest(wi)

\* a variant of the offset check that lets 6 through
offset_invalid_off_by_one(d) == d < 0 \/ d > 6
\* line 143
offset_invalid(d) == d < 0 \/ d > 5

OffsetMargin == 1
Offsets == (0 - OffsetMargin)..(5 + OffsetMargin)
Cities == {in_Tokyo, in_SEOUL_padded, s_beijing_native, in_UnknownVillage}

MaxForecastLen == 2
MaxItems == 6

\* observations of the provider: one per condition class, at noon of day 0 and
\* in the morning of day 1
PipelineObs ==
    { Observation(t, in_Clear, "clear sky", 15, 20, 25) : t \in {12, 33} }
    \cup { Observation(t, in_Clear, "clear sky", 25, 30, 35) : t \in {12, 33} }
    \cup { Observation(t, in_Clouds, "overcast clouds", 0, 5, 10) : t \in {12, 33} }
    \cup { Observation(t, in_Rain, "light rain", 5, 10, 31) : t \in {12, 33} }
    \cup { Observation(t, in_Thunderstorm, "thunderstorm", 30, 33, 35) : t \in {12, 33} }

\* the JSON bodies the forecast provider answers with
ForecastData == { [list |-> l] : l \in SeqsUpTo(PipelineObs, MaxForecastLen) } \cup {EmptyDict}

\* the items of a search response of n items, in the provider's order
Items(n) == [k \in 1..n |-> [videoId |-> k]]

\* the times datetime.now() returns (day 0)
NowTimes == {9, 23}

Init ==
    /\ OPENWEATHER_API_KEY \in BOOLEAN
    /\ YOUTUBE_API_KEY \in BOOLEAN
    /\ PipelineAtRest
    /\ ClassifyAtRest
    /\ SelectAtRest

\* get_activity_suggestion(c, d) is called: lines 318, 140-159
Request(c, d) ==
    /\ pc = "idle"
    /\ city' = c
    /\ days_ahead' = d
    /\ searchLog' = <<>>
    /\ IF ~OPENWEATHER_API_KEY
       THEN /\ AfterForecast([error |-> "OpenWeatherMap API key not configured"])
            /\ UNCHANGED forecastCalls
       ELSE IF offset_invalid(d)
       THEN /\ AfterForecast([error |-> "days_ahead must be between 0 and 5"])
            /\ UNCHANGED forecastCalls
       ELSE /\ forecastCalls' = forecastCalls + 1
            /\ pc' = "await_forecast"
            /\ UNCHANGED <<weather_info, queries, qidx, videos, searchCalls, result>>
    /\ UNCHANGED <<keyVars, classifyVars, selectVars>>

\* lines 162-163: the forecast call raises httpx.HTTPError
ForecastFails ==
    /\ pc = "await_forecast"
    /\ AfterForecast([error |-> "Failed to fetch weather data: HTTPError"])
    /\ UNCHANGED <<city, days_ahead, forecastCalls, searchLog, keyVars, classifyVars, selectVars>>

\* lines 159-205: the forecast call answers with data, at local time now
ForecastResponds(data, now) ==
    /\ pc = "await_forecast"
    /\ AfterForecast(ForecastResult(city, days_ahead, now, SelectForecast(data, now, days_ahead)))
    /\ UNCHANGED <<city, days_ahead, forecastCalls, searchLog, keyVars, classifyVars, selectVars>>

\* a variant of the failure handler that leaves the loop instead of continuing
SearchFails_abort ==
    /\ pc = "await_search"
    /\ searchLog' = Append(searchLog, [query |-> queries[qidx], ok |-> FALSE, items |-> <<>>])
    /\ weather_info' = weather_info
    /\ Finish(videos)
    /\ UNCHANGED <<city, days_ahead, queries, forecastCalls, keyVars, classifyVars, selectVars>>
\* lines 261-262: a search call raises httpx.HTTPError; continue with the next query
SearchFails ==
    /\ pc = "await_search"
    /\ searchLog' = Append(searchLog, [query |-> queries[qidx], ok |-> FALSE, items |-> <<>>])
    /\ weather_info' = weather_info
    /\ NextQuery(videos)
    /\ UNCHANGED <<city, days_ahead, queries, forecastCalls, keyVars, classifyVars, selectVars>>

\* lines 244-265: a search call answers with n items
SearchResponds(n) ==
    /\ pc = "await_search"
    /\ searchLog' = Append(searchLog, [query |-> queries[qidx], ok |-> TRUE, items |-> Items(n)])
    /\ weather_info' = weather_info
    /\ LET collected == AppendItems(videos, Items(n), queries[qidx])
       IN  IF Len(collected) >= MaxVideos
           THEN Finish(collected)
           ELSE NextQuery(collected)
    /\ UNCHANGED <<city, days_ahead, queries, forecastCalls, keyVars, classifyVars, selectVars>>

\* the result is delivered; the request's working state is discarded
Respond ==
    /\ pc = "done"
    /\ pc' = "idle"
    /\ city' = <<>>
    /\ days_ahead' = 0
    /\ weather_info' = None
    /\ queries' = <<>>
    /\ qidx' = 0
    /\ videos' = <<>>
    /\ forecastCalls' = 0
    /\ searchCalls' = 0
    /\ searchLog' = <<>>
    /\ result' = None
    /\ UNCHANGED <<keyVars, classifyVars, selectVars>>

Next ==
    \/ \E c \in Cities, d \in Offsets : Request(c, d)
    \/ ForecastFails
    \/ \E data \in ForecastData, now \in NowTimes : ForecastResponds(data, now)
    \/ SearchFails
    \/ \E n \in 0..MaxItems : SearchResponds(n)
    \/ Respond

Spec == Init /\ [][Next]_vars

\* ---- properties of the cascade (checked under Spec) ----
Done == pc = "done"
IsError(r) == "error" \in DOMAIN r
IsSuggestionResult(s) == DOMAIN s = {"weather_summary", "suggestion_reason", "videos"}
IsComposite(r) == DOMAIN r = {"weather", "suggestions"}
ForecastOk == weather_info # None /\ ~IsError(weather_info)
InvalidOffsetError == [error |-> "days_ahead must be between 0 and 5"]
ForecastNotConfigured == [error |-> "OpenWeatherMap API key not configured"]

\* the videos of the successful calls of a log, in call order and provider order
RECURSIVE ExpectedVideos(_)
ExpectedVideos(log) ==
    IF log = <<>> THEN <<>>
    ELSE LET e == Head(log)
         IN  (IF e.ok
              THEN [k \in 1..Len(e.items) |-> [url |-> e.items[k].videoId, search_query |-> e.query]]
              ELSE <<>>) \o ExpectedVideos(Tail(log))

\* C2: a search call is issued only after the forecast resolved without error;
\* when the forecast fails the result is the forecast error itself, it has no
\* suggestions field, and no search call was issued.
C2_ForecastErrorHalts ==
    /\ (searchCalls > 0 \/ pc = "await_search") => ForecastOk
    /\ (Done /\ IsError(weather_info))
         => /\ result = weather_info
            /\ "suggestions" \notin DOMAIN result
            /\ searchCalls = 0
            /\ searchLog = <<>>

\* C2 witness: the provider answered, no observation lay on the target date,
\* and the error was returned
C2_Witness ==
    /\ Done
    /\ forecastCalls = 1
    /\ weather_info = [error |-> NoForecastMessage(days_ahead)]
    /\ result = weather_info
    /\ searchCalls = 0

\* C3 as stated: every result is an error result with an error field, or a
\* composite whose suggestions part is a SuggestionResult without error; with
\* the search credential absent the result is an error result and no search
\* call is issued.
C3_NoPartialComposite ==
    Done =>
      /\ \/ IsError(result)
         \/ /\ IsComposite(result)
            /\ ~IsError(result.weather)
            /\ IsSuggestionResult(result.suggestions)
      /\ ~YOUTUBE_API_KEY => (IsError(result) /\ searchCalls = 0)

\* C4: at most 2 search calls per request, at most 5 items in the media list,
\* and exactly 5 when both calls return 3 items.
C4_CallAndItemCaps ==
    /\ searchCalls <= 2
    /\ Len(searchLog) <= 2
    /\ (Done /\ IsComposite(result) /\ IsSuggestionResult(result.suggestions))
         => /\ Len(result.suggestions.videos) <= 5
            /\ (/\ Len(searchLog) = 2
                /\ \A i \in 1..2 : searchLog[i].ok /\ Len(searchLog[i].items) = 3)
                 => Len(result.suggestions.videos) = 5

\* C4 witness: two calls of 3 items each gave a list of 5
C4_Witness ==
    /\ Done
    /\ searchCalls = 2
    /\ Len(searchLog) = 2
    /\ \A i \in 1..2 : searchLog[i].ok /\ Len(searchLog[i].items) = 3
    /\ IsComposite(result)
    /\ Len(result.suggestions.videos) = 5

\* C5: with the search credential and a forecast, a failed search call adds no
\* item and the other query is still sent; whatever fails, the result has no
\* error field, carries the summary and the rationale, and its media list is
\* made of the items of the calls that succeeded (none when both fail).
C5_FailedCallIsSkipped ==
    (Done /\ YOUTUBE_API_KEY /\ ForecastOk)
      => /\ ~IsError(result)
         /\ IsComposite(result)
         /\ IsSuggestionResult(result.suggestions)
         /\ result.suggestions.weather_summary[1] = city
         /\ result.suggestions.weather_summary[3] = weather_info.weather.description
         /\ result.suggestions.suggestion_reason \in
              { reasons[c][l] : c \in WeatherCondition, l \in {"ja", "en"} }
         /\ (searchLog # <<>> /\ ~searchLog[1].ok) => (Len(searchLog) = 2 /\ searchCalls = 2)
         /\ result.suggestions.videos = Take(ExpectedVideos(searchLog), 5)
         /\ (\A i \in 1..Len(searchLog) : ~searchLog[i].ok) => result.suggestions.videos = <<>>

\* C5 witness: the first call failed, the second returned 3 items, the list is
\* those 3 items
C5_Witness ==
    /\ Done
    /\ Len(searchLog) = 2
    /\ ~searchLog[1].ok
    /\ searchLog[2].ok /\ Len(searchLog[2].items) = 3
    /\ IsComposite(result)
    /\ ~IsError(result)
    /\ Len(result.suggestions.videos) = 3
    /\ \A k \in 1..3 : result.suggestions.videos[k].url = k

\* C6 as stated: an offset outside 0..5 always gives the InvalidOffset error,
\* with no forecast call and no search call.
C6_InvalidOffsetAlways ==
    (Done /\ days_ahead \notin 0..5)
      => /\ result = InvalidOffsetError
         /\ weather_info = InvalidOffsetError
         /\ forecastCalls = 0
         /\ searchCalls = 0

\* C6 amended: an offset outside 0..5 never leads to a forecast call or a search
\* call and the result is an error: the InvalidOffset error when the forecast
\* credential is configured, and the forecast "not configured" error when it
\* is not (the credential is checked first).
C6_InvalidOffsetAfterCredential ==
    (pc # "idle" /\ days_ahead \notin 0..5)
      => /\ Done
         /\ forecastCalls = 0
         /\ searchCalls = 0
         /\ weather_info = (IF OPENWEATHER_API_KEY THEN InvalidOffsetError
                                                    ELSE ForecastNotConfigured)
         /\ result = weather_info

\* C6 witness: offset 6 with the credential configured gave InvalidOffset
C6_Witness ==
    /\ Done
    /\ days_ahead = 6
    /\ OPENWEATHER_API_KEY
    /\ result = InvalidOffsetError
    /\ forecastCalls = 0

\* the entry of a table for (c, l): its own when present, the en entry otherwise
EntryOf(table, c, l) == IF l \in DOMAIN table[c] THEN table[c][l] ELSE table[c]["en"]

\* C8: the queries used and the rationale returned are those of the
\* (condition, locale) entry, or of the (condition, en) entry when the table
\* has none; every condition has an en entry, so all 20 pairs are defined.
C8_LocaleFallback ==
    /\ \A c \in WeatherCondition :
         /\ c \in DOMAIN SEARCH_QUERIES /\ "en" \in DOMAIN SEARCH_QUERIES[c]
         /\ c \in DOMAIN reasons /\ "en" \in DOMAIN reasons[c]
    /\ (ForecastOk /\ YOUTUBE_API_KEY)
         => /\ queries = EntryOf(SEARCH_QUERIES, weather_info.condition, weather_info.language)
            /\ \A i \in 1..Len(searchLog) : searchLog[i].query = queries[i]
            /\ Done => result.suggestions.suggestion_reason
                         = EntryOf(reasons, weather_info.condition, weather_info.language)

\* C8 witness: a ko request in stormy weather used the en stormy entry
C8_Witness ==
    /\ Done /\ ForecastOk /\ YOUTUBE_API_KEY
    /\ weather_info.language = "ko"
    /\ weather_info.condition = "stormy"
    /\ searchLog # <<>>
    /\ searchLog[1].query = "storm preparation"
    /\ result.suggestions.suggestion_reason = "Stormy weather expected. Stay safe and relaxed indoors."

\* C10: items are accumulated in query order and provider order; the
\* accumulation stops with the fifth item, after which no call is outstanding
\* and none is issued; the media list is the first 5 items of the in-order
\* concatenation of the successful calls' items.
C10_ShortCircuitFold ==
    /\ Len(videos) <= 5
    /\ Len(videos) >= 5 => pc # "await_search"
    /\ pc = "await_search" => /\ searchCalls = Len(searchLog) + 1
                              /\ videos = ExpectedVideos(searchLog)
    /\ (Done /\ IsComposite(result) /\ IsSuggestionResult(result.suggestions))
         => /\ searchCalls = Len(searchLog)
            /\ Len(searchLog) = 2 => Len(ExpectedVideos(<<searchLog[1]>>)) < 5
            /\ videos = result.suggestions.videos
            /\ result.suggestions.videos = Take(ExpectedVideos(searchLog), 5)

\* C10 witness: 3 items then 4 items; the tail of the second query was cut
C10_Witness ==
    /\ Done
    /\ Len(searchLog) = 2
    /\ searchLog[1].ok /\ Len(searchLog[1].items) = 3
    /\ searchLog[2].ok /\ Len(searchLog[2].items) = 4
    /\ Len(result.suggestions.videos) = 5
    /\ result.suggestions.videos[5] = [url |-> 2, search_query |-> queries[2]]
====
